---------------------------- MODULE Spec2Model ----------------------------
(***************************************************************************)
(* A model of the bloom filter of src/src/lib.rs: BloomFilter<T> with its  *)
(* bit vector, the three hashers it feeds a value's bytes to, and the      *)
(* operations new, with, insert and contains.                              *)
(*                                                                         *)
(* A u64 is a tuple of 8 bytes, least significant first, so that the       *)
(* wrapping 64-bit arithmetic of the hashers is computed exactly.          *)
(***************************************************************************)
EXTENDS Integers, Sequences, FiniteSets

VARIABLES
    pc,        \* "start": no filter yet; "ready": a filter exists; "panicked"
    bits,      \* BloomFilter.bits, a BitVec: bits[i + 1] is bit i
    inserted,  \* history: the values passed to insert so far
    last,      \* history: the last call, its argument and what it returned
    before     \* history: bits as they were when the last call started

vars == <<pc, bits, inserted, last, before>>

---------------------------------------------------------------------------
(* Bounds and inputs *)

\* with(args) is called with args.bits in 0..MaxBits (and new() with the default).
MaxBits == 4

\* BloomFilterArgs::default().bits
DefaultBits == 1024

\* The values handed to insert and contains, as the bytes value.as_ref() gives:
\* the empty string, the three keys the test module inserts, and one key it
\* only queries.
Empty == << >>
Test1 == <<84, 101, 115, 116, 32, 49>>                       \* "Test 1"
OtherTest == <<79, 116, 104, 101, 114, 32, 84, 101, 115, 116>> \* "Other Test"
LongOne == <<87, 104, 97, 116, 32, 97, 98, 111, 117, 116, 32, 116, 104, 105,
             115, 32, 108, 111, 110, 103, 32, 111, 110, 101, 63>>
                                             \* "What about this long one?"
Testing123 == <<84, 101, 115, 116, 105, 110, 103, 49, 50, 51>> \* "Testing123"

Values == {Empty, Test1, OtherTest, LongOne, Testing123}

---------------------------------------------------------------------------
(* 64-bit words *)

Zero64 == <<0, 0, 0, 0, 0, 0, 0, 0>>

\* The word with the bytes f[1..8], as a tuple (a value, not a function
\* expression evaluated again at each use).
Word(f) == <<f[1], f[2], f[3], f[4], f[5], f[6], f[7], f[8]>>

\* The element of a set of one element. The({F(y) : y \in {x}}) is F applied
\* to the value of x: x is computed before F is entered, as an assignment
\* `let y = x;` computes it, so that a chain of steps is a loop and not a
\* nest of unevaluated expressions.
The(S) == CHOOSE r \in S : TRUE

\* byte as u64, and the little-endian read of 1, 2, 4 or 8 bytes of s from
\* position p (1-based), zero-extended
ReadLE(s, p, n) ==
    LET byte(k) == IF k <= n THEN s[p + k - 1] ELSE 0
    IN  Word([k \in 1..8 |-> byte(k)])

XorByte(a, b) ==
    LET bit(i) == IF ((a \div (2^i)) % 2) # ((b \div (2^i)) % 2) THEN 2^i ELSE 0
    IN  bit(0) + bit(1) + bit(2) + bit(3) + bit(4) + bit(5) + bit(6) + bit(7)

Xor64(x, y) ==
    LET byte(k) == XorByte(x[k], y[k])
    IN  Word([k \in 1..8 |-> byte(k)])

RECURSIVE AddCarry(_, _, _)
AddCarry(x, y, k) ==
    IF k = 0 THEN 0 ELSE (x[k] + y[k] + AddCarry(x, y, k - 1)) \div 256

\* u64::wrapping_add
WrappingAdd(x, y) ==
    LET byte(k) == (x[k] + y[k] + AddCarry(x, y, k - 1)) % 256
    IN  Word([k \in 1..8 |-> byte(k)])

RECURSIVE MulColumn(_, _, _, _)
MulColumn(x, y, k, i) ==
    IF i = 0 THEN 0 ELSE x[i] * y[k - i + 1] + MulColumn(x, y, k, i - 1)

RECURSIVE MulAcc(_, _, _)
MulAcc(x, y, k) ==
    MulColumn(x, y, k, k) + (IF k = 1 THEN 0 ELSE MulAcc(x, y, k - 1) \div 256)

\* u64::wrapping_mul
WrappingMul(x, y) ==
    LET byte(k) == MulAcc(x, y, k) % 256
    IN  Word([k \in 1..8 |-> byte(k)])

\* u64::rotate_left(r), 0 < r < 64
RotateLeft(x, r) ==
    LET q == r \div 8
        s == r % 8
        at(j) == x[((j - 1) % 8) + 1]
        byte(k) == ((at(k - q + 8) * (2^s)) % 256) + (at(k - q - 1 + 8) \div (2^(8 - s)))
    IN  Word([k \in 1..8 |-> byte(k)])

RECURSIVE RemFrom(_, _, _)
RemFrom(x, m, k) ==
    IF k > 8 THEN 0 ELSE (RemFrom(x, m, k + 1) * 256 + x[k]) % m

\* x % m for a u64 x and 0 < m
Rem64(x, m) == RemFrom(x, m, 1)

---------------------------------------------------------------------------
(* The three hashers *)

FnvOffsetBasis == <<37, 35, 34, 132, 228, 156, 242, 203>>  \* 0xcbf29ce484222325
FnvPrime == <<179, 1, 0, 0, 0, 1, 0, 0>>                   \* 0x100000001b3

RECURSIVE FnvWrite(_, _, _)
FnvWrite(h, s, p) ==
    LET rest(n) == FnvWrite(n, s, p + 1)
    IN  IF p > Len(s) THEN h
        ELSE The({rest(y) : y \in {WrappingMul(Xor64(h, ReadLE(s, p, 1)), FnvPrime)}})

\* FnvHasher::default(), write(bytes), finish()
FnvHash(s) == FnvWrite(FnvOffsetBasis, s, 1)

FxSeed64 == <<149, 10, 34, 39, 183, 193, 124, 81>>         \* 0x517cc1b727220a95

FxHashWord(h, w) == WrappingMul(Xor64(RotateLeft(h, 5), w), FxSeed64)

RECURSIVE FxWrite(_, _, _)
FxWrite(h, s, p) ==
    LET left == Len(s) - p + 1
        rest8(n) == FxWrite(n, s, p + 8)
        rest4(n) == FxWrite(n, s, p + 4)
        rest2(n) == FxWrite(n, s, p + 2)
    IN  IF left >= 8 THEN The({rest8(y) : y \in {FxHashWord(h, ReadLE(s, p, 8))}})
        ELSE IF left >= 4 THEN The({rest4(y) : y \in {FxHashWord(h, ReadLE(s, p, 4))}})
        ELSE IF left >= 2 THEN The({rest2(y) : y \in {FxHashWord(h, ReadLE(s, p, 2))}})
        ELSE IF left >= 1 THEN FxHashWord(h, ReadLE(s, p, 1))
        ELSE h

\* FxHasher::default(), write(bytes), finish()
FxHash(s) == FxWrite(Zero64, s, 1)

SipInit == << <<117, 101, 115, 112, 101, 109, 111, 115>>,  \* v0, keys 0 and 0
              <<109, 111, 100, 110, 97, 114, 111, 100>>,   \* v1
              <<97, 114, 101, 110, 101, 103, 121, 108>>,   \* v2
              <<115, 101, 116, 121, 98, 100, 101, 116>> >> \* v3

SipRound(v) ==
    LET a0 == WrappingAdd(v[1], v[2])
        b1 == Xor64(RotateLeft(v[2], 13), a0)
        c0 == RotateLeft(a0, 32)
        a2 == WrappingAdd(v[3], v[4])
        b3 == Xor64(RotateLeft(v[4], 16), a2)
        d0 == WrappingAdd(c0, b3)
        c3 == Xor64(RotateLeft(b3, 21), d0)
        d2 == WrappingAdd(a2, b1)
        c1 == Xor64(RotateLeft(b1, 17), d2)
    IN  <<d0, c1, RotateLeft(d2, 32), c3>>

\* v3 ^= m; one c_round; v0 ^= m
SipCompress(v, m) ==
    LET after(r) == <<Xor64(r[1], m), r[2], r[3], r[4]>>
    IN  The({after(y) : y \in {SipRound(<<v[1], v[2], v[3], Xor64(v[4], m)>>)}})

\* v2 ^= 0xff; three d_rounds; v0 ^ v1 ^ v2 ^ v3
SipFinish(w) ==
    LET fold(f) == Xor64(Xor64(f[1], f[2]), Xor64(f[3], f[4]))
        last3(v) == The({fold(y) : y \in {SipRound(v)}})
        last2(v) == The({last3(y) : y \in {SipRound(v)}})
        first(v) == SipRound(<<v[1], v[2], Xor64(v[3], <<255, 0, 0, 0, 0, 0, 0, 0>>), v[4]>>)
    IN  The({last2(y) : y \in {first(w)}})

RECURSIVE SipWrite(_, _, _)
SipWrite(v, s, p) ==
    LET left == Len(s) - p + 1
        rest(w) == SipWrite(w, s, p + 8)
        \* the last word: the bytes left over, and the length in the top byte
        byte(k) == IF k <= left THEN s[p + k - 1]
                   ELSE IF k = 8 THEN Len(s) % 256 ELSE 0
    IN  IF left >= 8 THEN The({rest(y) : y \in {SipCompress(v, ReadLE(s, p, 8))}})
        ELSE The({SipFinish(w) : w \in {SipCompress(v, Word([k \in 1..8 |-> byte(k)]))}})

\* DefaultHasher::default() (SipHash 1-3, keys 0), write(bytes), finish()
DefaultHash(s) == SipWrite(SipInit, s, 1)

\* The three digests of every value, computed once.
Digests == { <<v, <<FnvHash(v), FxHash(v), DefaultHash(v)>> >> : v \in Values }

Digest(v) == (CHOOSE d \in Digests : d[1] = v)[2]

---------------------------------------------------------------------------
(* bit_vec::BitVec, as far as the filter uses it *)

\* BitVec::from_elem(nbits, bit)
from_elem(nbits, bit) == [i \in 1..nbits |-> bit]

\* Option<bool>
None == << >>
Some(x) == <<x>>
unwrap_or(o, default) == IF o = None THEN default ELSE o[1]

\* BitVec::get(i): None when i is out of bounds
get(b, i) == IF i < Len(b) THEN Some(b[i + 1]) ELSE None

\* BitVec::set(i, x) panics when i is out of bounds
SetPanics(b, i) == i >= Len(b)

\* fault: the bit is flipped where x is true, not assigned
setFlipping(b, i, x) == IF SetPanics(b, i) THEN b ELSE [b EXCEPT ![i + 1] = (b[i + 1] # x)]

\* in bounds: bit i becomes x (the bit vector of a set that panics is never
\* seen again; it is left as it was)
set(b, i, x) == IF SetPanics(b, i) THEN b ELSE [b EXCEPT ![i + 1] = x]

---------------------------------------------------------------------------
(* BloomFilter *)

\* fault: the bit vector starts all true
withAllSet(args_bits) == from_elem(args_bits, TRUE)

\* BloomFilter::with(args): the bit vector of the new filter
with(args_bits) == from_elem(args_bits, FALSE)

\* BloomFilter::new()
new == with(DefaultBits)

\* `% m` panics when m = self.bits.len() is 0
RemPanics(b) == Len(b) = 0

\* fault: the digests are reduced modulo len + 1
calculate_hash_indices_off_by_one(b, value) ==
    LET m == Len(b) + 1
        d == Digest(value)
    IN  <<Rem64(d[1], m), Rem64(d[2], m), Rem64(d[3], m)>>

\* BloomFilter::calculate_hash_indices(value), where it does not panic
calculate_hash_indices(b, value) ==
    LET m == Len(b)
        d == Digest(value)
    IN  <<Rem64(d[1], m), Rem64(d[2], m), Rem64(d[3], m)>>

\* the loop of insert over idxs[k..]
RECURSIVE insertFrom(_, _, _)
insertFrom(b, idxs, k) ==
    IF k > Len(idxs) THEN b ELSE insertFrom(set(b, idxs[k], TRUE), idxs, k + 1)

\* fault: the loop leaves after the first index
insertFirstOnly(b, value) == set(b, calculate_hash_indices(b, value)[1], TRUE)

\* fault: each indexed bit is negated, not set
RECURSIVE insertTogglingFrom(_, _, _)
insertTogglingFrom(b, idxs, k) ==
    IF k > Len(idxs) THEN b
    ELSE insertTogglingFrom(set(b, idxs[k], ~unwrap_or(get(b, idxs[k]), FALSE)),
                            idxs, k + 1)

insertToggling(b, value) == insertTogglingFrom(b, calculate_hash_indices(b, value), 1)

\* fault: the bits are set in a fresh bit vector that replaces self.bits
insertOverwriting(b, value) ==
    insertFrom(from_elem(Len(b), FALSE), calculate_hash_indices(b, value), 1)

\* BloomFilter::insert(value): the bit vector afterwards, where nothing panics
insert(b, value) == insertFrom(b, calculate_hash_indices(b, value), 1)

\* some self.bits.set(idx, true) of insert panics
InsertSetPanics(b, value) ==
    \E k \in 1..3 : SetPanics(b, calculate_hash_indices(b, value)[k])

\* the loop of contains over idxs[k..], returning at the first unset bit
RECURSIVE containsFrom(_, _, _)
containsFrom(b, idxs, k) ==
    IF k > Len(idxs) THEN "Maybe"
    ELSE IF ~unwrap_or(get(b, idxs[k]), FALSE) THEN "No"
    ELSE containsFrom(b, idxs, k + 1)

\* fault: the `!` of the test is missing
containsNegated(b, value) ==
    LET idxs == calculate_hash_indices(b, value)
    IN  IF \E k \in 1..Len(idxs) : unwrap_or(get(b, idxs[k]), FALSE)
        THEN "No" ELSE "Maybe"

\* fault: only the first index is examined
containsFirstOnly(b, value) ==
    containsFrom(b, SubSeq(calculate_hash_indices(b, value), 1, 1), 1)

\* BloomFilter::contains(value): the response, where nothing panics
contains(b, value) == containsFrom(b, calculate_hash_indices(b, value), 1)

---------------------------------------------------------------------------
(* The program: one filter is built, then insert and contains are called *)

NoValue == << >>

Called(op, value, resp) ==
    [op |-> op, value |-> value, resp |-> resp,
     repeat |-> last.op = op /\ last.value = value]

Init ==
    /\ pc = "start"
    /\ bits = << >>
    /\ inserted = {}
    /\ last = [op |-> "none", value |-> NoValue, resp |-> "-", repeat |-> FALSE]
    /\ before = << >>

\* BloomFilter::new()
CallNew ==
    /\ pc = "start"
    /\ bits' = new
    /\ pc' = "ready"
    /\ last' = Called("new", NoValue, "-")
    /\ before' = bits
    /\ UNCHANGED inserted

\* BloomFilter::with(BloomFilterArgs { bits: n })
CallWith(n) ==
    /\ pc = "start"
    /\ bits' = with(n)
    /\ pc' = "ready"
    /\ last' = Called("with", NoValue, "-")
    /\ before' = bits
    /\ UNCHANGED inserted

\* filter.insert(&value)
CallInsert(value) ==
    /\ pc = "ready"
    /\ last' = Called("insert", value, "-")
    /\ before' = bits
    /\ IF RemPanics(bits) \/ InsertSetPanics(bits, value)
       THEN /\ pc' = "panicked"
            /\ UNCHANGED <<bits, inserted>>
       ELSE /\ bits' = insert(bits, value)
            /\ inserted' = inserted \cup {value}
            /\ pc' = "ready"

\* fault: contains sets the bits it examines
CallContainsMutating(value) ==
    /\ pc = "ready"
    /\ before' = bits
    /\ IF RemPanics(bits)
       THEN /\ pc' = "panicked"
            /\ last' = Called("contains", value, "-")
            /\ UNCHANGED <<bits, inserted>>
       ELSE /\ last' = Called("contains", value, contains(bits, value))
            /\ bits' = insert(bits, value)
            /\ UNCHANGED <<pc, inserted>>

\* filter.contains(&value)
CallContains(value) ==
    /\ pc = "ready"
    /\ before' = bits
    /\ IF RemPanics(bits)
       THEN /\ pc' = "panicked"
            /\ last' = Called("contains", value, "-")
            /\ UNCHANGED <<bits, inserted>>
       ELSE /\ last' = Called("contains", value, contains(bits, value))
            /\ UNCHANGED <<pc, bits, inserted>>

Next ==
    \/ CallNew
    \/ \E n \in 0..MaxBits : CallWith(n)
    \/ \E value \in Values : CallInsert(value)
    \/ \E value \in Values : CallContains(value)

Spec == Init /\ [][Next]_vars

---------------------------------------------------------------------------
(* Properties *)

Usable == pc = "ready" /\ Len(bits) > 0

\* the positions whose bit is true
SetBits(b) == {i \in 0..(Len(b) - 1) : b[i + 1]}

\* the positions calculate_hash_indices gives for value
IndexSet(b, value) == {calculate_hash_indices(b, value)[k] : k \in 1..3}

AllIndexedBitsSet(b, value) ==
    \A k \in 1..3 : unwrap_or(get(b, calculate_hash_indices(b, value)[k]), FALSE)

\* the six orders in which three indices can be examined
Orders == {<<1, 2, 3>>, <<1, 3, 2>>, <<2, 1, 3>>, <<2, 3, 1>>, <<3, 1, 2>>, <<3, 2, 1>>}

\* C1: on a filter of positive capacity, contains answers Maybe for every
\* value that was passed to insert before, whatever else was inserted: both
\* what contains would answer now, and what the last contains call answered.
NoFalseNegatives ==
    Usable =>
        /\ \A v \in inserted : contains(bits, v) = "Maybe"
        /\ (last.op = "contains" /\ last.value \in inserted) => last.resp = "Maybe"

\* the scenario of the first test: the three keys inserted into a default
\* filter, and one of them queried
NoFalseNegativesWitness ==
    /\ pc = "ready"
    /\ Len(bits) = DefaultBits
    /\ {Test1, OtherTest, LongOne} \subseteq inserted
    /\ last.op = "contains"
    /\ last.value = OtherTest
    /\ last.resp = "Maybe"

\* C2: a filter of positive capacity built by new() or with(args) on which
\* insert was never called answers No for every value.
EmptyFilterAnswersNo ==
    (Usable /\ inserted = {}) =>
        /\ \A v \in Values : contains(bits, v) = "No"
        /\ last.op = "contains" => last.resp = "No"

\* the scenario of the second test: a fresh default filter, queried
EmptyFilterWitness ==
    /\ pc = "ready"
    /\ Len(bits) = DefaultBits
    /\ inserted = {}
    /\ last.op = "contains"
    /\ last.value = Testing123
    /\ last.resp = "No"

\* C3: no step resets a bit from true to false or changes the length of the
\* bit vector, so a value contains answers Maybe for before a step is
\* answered Maybe after it.
Monotone ==
    [][(pc = "ready" /\ pc' = "ready") =>
          /\ Len(bits') = Len(bits)
          /\ \A i \in 1..Len(bits) : bits[i] => bits'[i]
          /\ Len(bits) > 0 =>
                \A v \in Values :
                    contains(bits, v) = "Maybe" => contains(bits', v) = "Maybe"]_vars

\* an insert that set new bits on a filter that already answered Maybe for
\* some value, and still does
MonotoneWitness ==
    /\ Usable
    /\ last.op = "insert"
    /\ bits # before
    /\ \E v \in Values : contains(before, v) = "Maybe" /\ contains(bits, v) = "Maybe"

\* C4: insert(v) called right after insert(v) leaves the bit vector as the
\* first call left it, and with it every answer of contains; and in every
\* state, inserting a value twice gives the bit vector inserting it once gives.
InsertIdempotent ==
    /\ (pc = "ready" /\ last.op = "insert" /\ last.repeat) =>
            /\ bits = before
            /\ Len(bits) > 0 =>
                  \A w \in Values : contains(bits, w) = contains(before, w)
    /\ Usable => \A v \in Values : insert(insert(bits, v), v) = insert(bits, v)

\* a second insert of the same value in a row, on a filter with bits set
\* and bits unset
InsertIdempotentWitness ==
    /\ pc = "ready"
    /\ last.op = "insert"
    /\ last.repeat
    /\ SetBits(bits) # {}
    /\ SetBits(bits) # 0..(Len(bits) - 1)

\* C5: a filter of zero bits is never handed out, and no call panics: zero
\* capacity is rejected by the constructor.
ZeroCapacityRejected ==
    /\ pc = "ready" => Len(bits) > 0
    /\ pc # "panicked"

\* C6: on a filter of one bit, once a value was inserted, every value has
\* the indices 0, 0, 0 and contains answers Maybe for every value.
CapacityOneSaturates ==
    (pc = "ready" /\ Len(bits) = 1 /\ inserted # {}) =>
        /\ \A w \in Values :
              /\ calculate_hash_indices(bits, w) = <<0, 0, 0>>
              /\ contains(bits, w) = "Maybe"
        /\ last.op = "contains" => last.resp = "Maybe"

\* one value inserted into a filter of one bit, and another value queried
CapacityOneWitness ==
    /\ pc = "ready"
    /\ Len(bits) = 1
    /\ Cardinality(inserted) = 1
    /\ last.op = "contains"
    /\ last.value \notin inserted
    /\ last.resp = "Maybe"

\* C7: a contains call leaves every bit and the length of the bit vector as
\* they were, whatever it answers (and when it panics).
ContainsReadOnly ==
    last.op = "contains" => (Len(bits) = Len(before) /\ bits = before)

\* a contains call that returned No at an unset bit of a filter that has
\* bits set, after finding the first bit it examined set
ContainsReadOnlyWitness ==
    /\ pc = "ready"
    /\ last.op = "contains"
    /\ last.resp = "No"
    /\ inserted # {}
    /\ unwrap_or(get(bits, calculate_hash_indices(bits, last.value)[1]), FALSE)

\* C8: on a filter of positive capacity contains answers Maybe exactly when
\* the three bits at the indices of the value are all true and No exactly
\* when one of them is false, in whichever order the three are examined.
ContainsExact ==
    Usable =>
        /\ \A v \in Values :
              /\ contains(bits, v) = "Maybe" <=> AllIndexedBitsSet(bits, v)
              /\ contains(bits, v) = "No" <=> ~AllIndexedBitsSet(bits, v)
              /\ \A o \in Orders :
                    LET idxs == calculate_hash_indices(bits, v)
                    IN  containsFrom(bits, <<idxs[o[1]], idxs[o[2]], idxs[o[3]]>>, 1)
                            = contains(bits, v)
        /\ last.op = "contains" =>
              (last.resp = "Maybe" <=> AllIndexedBitsSet(bits, last.value))

\* a contains call that answered No with the first of the three bits set
\* and a later one unset
ContainsExactWitness ==
    /\ Usable
    /\ last.op = "contains"
    /\ last.resp = "No"
    /\ LET idxs == calculate_hash_indices(bits, last.value)
       IN  /\ bits[idxs[1] + 1]
           /\ ~bits[idxs[3] + 1]

\* C9: on a filter of m >= 1 bits every value, the empty one included, has
\* exactly 3 indices, each in [0, m), and no insert or contains call panics.
IndicesInRange ==
    (pc # "start" /\ Len(bits) >= 1) =>
        /\ pc = "ready"
        /\ \A v \in Values :
              LET idxs == calculate_hash_indices(bits, v)
              IN  /\ Len(idxs) = 3
                  /\ \A k \in 1..3 : idxs[k] \in 0..(Len(bits) - 1)

\* the empty byte sequence inserted into a filter of 3 bits, where its
\* three digests reduce to two different positions
IndicesInRangeWitness ==
    /\ pc = "ready"
    /\ Len(bits) = 3
    /\ last.op = "insert"
    /\ last.value = Empty
    /\ Cardinality(IndexSet(bits, Empty)) = 2

\* C10: on a filter of positive capacity the positions whose bit is true are
\* exactly the indices of the values inserted so far (so the bit vector is a
\* function of the set of values inserted, not of their order), and an
\* insert changes no bit outside the indices of its value.
ExactBitSet ==
    Usable =>
        /\ SetBits(bits) = UNION {IndexSet(bits, v) : v \in inserted}
        /\ last.op = "insert" =>
              \A i \in 0..(Len(bits) - 1) :
                  i \notin IndexSet(bits, last.value) => bits[i + 1] = before[i + 1]

\* a second value inserted into a default filter that held another
ExactBitSetWitness ==
    /\ pc = "ready"
    /\ Len(bits) = DefaultBits
    /\ Cardinality(inserted) >= 2
    /\ last.op = "insert"
    /\ SetBits(before) # {}
    /\ bits # before

===========================================================================
